---- MODULE Spec2Model ----
(***************************************************************************)
(* A model of package digest (opencontainers/go-digest): the algorithm     *)
(* registry, the digest grammar and its validation, the digester and the   *)
(* verifier.                                                               *)
(*                                                                         *)
(* A Go string is a sequence of one-character strings.  An Algorithm is    *)
(* its name (type Algorithm string).  A CryptoHash implementation is the   *)
(* record of what its Available() and Size() answer; its New() is a hash   *)
(* whose state is the sequence of bytes written to it.                     *)
(*                                                                         *)
(* The exported table Algorithms that Digest.Validate, Digest.Algorithm    *)
(* and AlgorithmFlag.Set consult and the table algorithms that             *)
(* RegisterAlgorithm fills are one table here: Algorithms is the view of   *)
(* the registry by name.                                                   *)
(***************************************************************************)
EXTENDS Integers, Sequences, FiniteSets, TLC

VARIABLES
    algorithms,             \* map[Algorithm]CryptoHash
    anchoredEncodedRegexps, \* map[Algorithm]*regexp.Regexp: n stands for ^[a-f0-9]{n}$
    d,                      \* the Digest (a string) the operations are applied to
    receiver,               \* the Algorithm the digesting operations are applied to
    p,                      \* the byte slice the digesting operations are applied to
    op,                     \* the operation that ran last
    ret,                    \* what it returned: [err, panic, ok, val]
    validated,              \* d.Validate() has returned nil at some earlier time
    verifier,               \* the hashVerifier built last: [live, digest, digester]
    stream,                 \* all the bytes passed to verifier.Write so far, in order
    digester,               \* the digester built last: [alg, hash]
    written,                \* all the bytes written to digester.Hash() so far, in order
    reader,                 \* the io.Reader digested last: [chunks, err]
    sinks,                  \* the hash.Hash objects Algorithm.Hash() returned, in order
    arg,                    \* the string passed to the Set or UnmarshalText that ran last
    flag,                   \* the field Algorithm of an AlgorithmFlag
    algorithmsLock,         \* sync.RWMutex: [writer, readers], writer 0 when not write-held
    calls                   \* the call each goroutine is in: [pc, name, algorithm, implementation, ret]

\* the variables of digesting, of Set and UnmarshalText, and of the goroutines
digesterVars == <<digester, written, reader, sinks>>
setVars == <<arg, flag>>
lockVars == <<algorithmsLock, calls>>

vars == <<algorithms, anchoredEncodedRegexps, d, receiver, p, op, ret, validated, verifier, stream,
          digester, written, reader, sinks, arg, flag, algorithmsLock, calls>>

----------------------------------------------------------------------------
(* Bounds of the model *)

\* the longest digest string tried
MaxLen == 4
\* the largest Size() of a registered implementation, in bytes
MaxSize == 2
\* the longest byte slice digested or written
MaxBytes == 2
\* the number of goroutines that call into the registry at the same time
MaxGoroutines == 2
\* the number of hashes obtained from Algorithm.Hash() that are followed
MaxSinks == 2

----------------------------------------------------------------------------
(* Characters and strings *)

Digit == {"0", "1", "2", "3", "4", "5", "6", "7", "8", "9"}
LowerAF == {"a", "b", "c", "d", "e", "f"}
UpperAF == {"A", "B", "C", "D", "E", "F"}
LowerGZ == {"g", "h", "i", "j", "k", "l", "m", "n", "o", "p", "q", "r", "s", "t",
            "u", "v", "w", "x", "y", "z"}
UpperGZ == {"G", "H", "I", "J", "K", "L", "M", "N", "O", "P", "Q", "R", "S", "T",
            "U", "V", "W", "X", "Y", "Z"}
NameSeparator == {"+", ".", "_", "-"}

\* one character of every class the matchers of the package tell apart:
\* lowercase hex, uppercase hex, lowercase non-hex, a name separator, the
\* digest separator, and a character of no class
Alphabet == {"a", "A", "m", "_", ":", "/"}

Strings == UNION {[1..n -> Alphabet] : n \in 0..MaxLen}

\* strings.Index(s, c): the 0-based index of the first c in s, -1 if none
Index(s, c) ==
    IF \E k \in 1..Len(s) : s[k] = c
    THEN (CHOOSE k \in 1..Len(s) : s[k] = c /\ \A j \in 1..(k - 1) : s[j] # c) - 1
    ELSE -1

\* s[lo:hi] is defined (does not panic) exactly for these indices
SliceOK(s, lo, hi) == 0 <= lo /\ lo <= hi /\ hi <= Len(s)

\* s[lo:hi]
Slice(s, lo, hi) == SubSeq(s, lo + 1, hi)

AllIn(s, class) == \A k \in 1..Len(s) : s[k] \in class

\* the values of the bytes digested
ByteValues == {0, 1}

ByteSlices == UNION {[1..n -> ByteValues] : n \in 0..MaxBytes}

----------------------------------------------------------------------------
(* Results *)

nil == "nil"
ErrDigestInvalidFormat == "invalid checksum digest format"
ErrDigestInvalidLength == "invalid checksum digest length"
ErrDigestUnsupported == "unsupported digest algorithm"

NoPanic == "no panic"

\* a normal return with an error value / a string value / a boolean
RetErr(e) == [err |-> e, panic |-> NoPanic, ok |-> (e = nil), val |-> <<>>]
RetVal(v) == [err |-> nil, panic |-> NoPanic, ok |-> TRUE, val |-> v]
RetBool(b) == [err |-> nil, panic |-> NoPanic, ok |-> b, val |-> <<>>]
\* a panic with the given message
Panic(msg) == [err |-> nil, panic |-> msg, ok |-> FALSE, val |-> <<>>]

----------------------------------------------------------------------------
(* The hex encoding *)

HexDigits == <<"0", "1", "2", "3", "4", "5", "6", "7", "8", "9", "a", "b", "c", "d", "e", "f">>
UpperHexDigits ==
    <<"0", "1", "2", "3", "4", "5", "6", "7", "8", "9", "A", "B", "C", "D", "E", "F">>

\* hex.EncodeToString with the digits of %X
EncodeToStringUpper(src) ==
    [k \in 1..(2 * Len(src)) |->
        IF k % 2 = 1 THEN UpperHexDigits[(src[(k + 1) \div 2] \div 16) + 1]
        ELSE UpperHexDigits[(src[k \div 2] % 16) + 1]]

\* hex.EncodeToString: two lowercase digits for each byte
EncodeToString(src) ==
    [k \in 1..(2 * Len(src)) |->
        IF k % 2 = 1 THEN HexDigits[(src[(k + 1) \div 2] \div 16) + 1]
        ELSE HexDigits[(src[k \div 2] % 16) + 1]]

\* the value of a hex digit of either case, -1 for any other character
HexValue(c) ==
    IF \E v \in 1..16 : HexDigits[v] = c \/ UpperHexDigits[v] = c
    THEN (CHOOSE v \in 1..16 : HexDigits[v] = c \/ UpperHexDigits[v] = c) - 1
    ELSE -1

\* hex.DecodeString: case-insensitive; an error for an odd length or a
\* character that is no hex digit
DecodeString(s) ==
    IF Len(s) % 2 = 1 \/ \E k \in 1..Len(s) : HexValue(s[k]) < 0
    THEN [err |-> "encoding/hex: invalid input", raw |-> <<>>]
    ELSE [err |-> nil,
          raw |-> [k \in 1..(Len(s) \div 2) |->
                      16 * HexValue(s[2 * k - 1]) + HexValue(s[2 * k])]]

\* Algorithm.Encode: fmt.Sprintf("%x", d)
Encode(bytes) ==
    [k \in 1..(2 * Len(bytes)) |->
        HexDigits[(IF k % 2 = 1 THEN bytes[(k + 1) \div 2] \div 16
                   ELSE bytes[k \div 2] % 16) + 1]]

----------------------------------------------------------------------------
(* The matchers *)

\* algorithmRegexp: ^[a-z0-9]+([+._-][a-z0-9]+)*$
algorithmRegexp(s) ==
    /\ Len(s) > 0
    /\ AllIn(s, Digit \cup LowerAF \cup LowerGZ \cup NameSeparator)
    /\ s[1] \notin NameSeparator
    /\ s[Len(s)] \notin NameSeparator
    /\ \A k \in 1..(Len(s) - 1) : ~(s[k] \in NameSeparator /\ s[k + 1] \in NameSeparator)

\* DigestRegexpAnchored: ^[a-zA-Z0-9-_+.]+:[a-fA-F0-9]+$
DigestRegexpAnchored(s) ==
    \E k \in 2..(Len(s) - 1) :
        /\ s[k] = ":"
        /\ AllIn(SubSeq(s, 1, k - 1),
                 Digit \cup LowerAF \cup LowerGZ \cup UpperAF \cup UpperGZ \cup NameSeparator)
        /\ AllIn(SubSeq(s, k + 1, Len(s)), Digit \cup LowerAF \cup UpperAF)

\* hexDigestRegex(cryptoHash): the matcher ^[a-f0-9]{2*Size}$, kept as its length
hexDigestRegex(cryptoHash) == cryptoHash.size * 2

\* r.MatchString(encoded) for r = ^[a-f0-9]{n}$
MatchHexDigest(n, encoded) == Len(encoded) = n /\ AllIn(encoded, Digit \cup LowerAF)

----------------------------------------------------------------------------
(* The registry *)

\* Canonical = SHA256
Canonical == <<"a">>

\* the implementations offered to RegisterAlgorithm: available or not, of the
\* smallest and of the largest size
Implementations == [available : BOOLEAN, size : {1, MaxSize}]

\* the implementation registered for Canonical when the package is initialized
CanonicalHash == [available |-> TRUE, size |-> 1]

\* the calls of RegisterAlgorithm: the canonical name and a second name of the
\* grammar with every implementation, and two names outside the grammar (the
\* implementation is not looked at for these)
RegisterCalls ==
    ({<<"a">>, <<"m">>} \X Implementations) \cup ({<<"_">>, <<>>} \X {CanonicalHash})

\* the exported table Algorithms, by name
Algorithms == DOMAIN algorithms

\* Algorithm.Available that answers for the registration alone
AvailableIfRegistered(a) == a \in DOMAIN algorithms

\* Algorithm.Available
Available(a) ==
    IF a \notin DOMAIN algorithms THEN FALSE ELSE algorithms[a].available

\* Algorithm.Size
Size(a) ==
    IF a \notin DOMAIN algorithms THEN 0 ELSE algorithms[a].size

\* algorithm.HashSize: 2 * Size() for the Hex encoding, the encoding of every
\* algorithm of the package (the panic for another encoding is not reachable)
HashSize(a) == 2 * Size(a)

\* Algorithm.Validate: validates the encoded portion
AlgorithmValidate(a, encoded) ==
    IF a \notin DOMAIN anchoredEncodedRegexps THEN ErrDigestUnsupported
    ELSE IF Size(a) * 2 # Len(encoded) THEN ErrDigestInvalidLength
    ELSE IF MatchHexDigest(anchoredEncodedRegexps[a], encoded) THEN nil
    ELSE ErrDigestInvalidFormat

----------------------------------------------------------------------------
(* Digest *)

\* Digest.Validate with the guard on the separator left out
DigestValidateUnguarded(s) ==
    LET i == Index(s, ":") IN
    IF ~SliceOK(s, 0, i) \/ ~SliceOK(s, i + 1, Len(s))
    THEN Panic("slice bounds out of range")
    ELSE IF Slice(s, 0, i) \notin Algorithms \/ ~Available(Slice(s, 0, i))
    THEN RetErr(ErrDigestUnsupported)
    ELSE IF HashSize(Slice(s, 0, i)) # Len(Slice(s, i + 1, Len(s)))
    THEN RetErr(ErrDigestInvalidLength)
    ELSE RetErr(nil)

\* Digest.Validate
DigestValidate(s) ==
    LET i == Index(s, ":") IN
    IF i < 0 \/ i + 1 = Len(s) \/ ~DigestRegexpAnchored(s)
    THEN RetErr(ErrDigestInvalidFormat)
    ELSE IF ~SliceOK(s, 0, i) \/ ~SliceOK(s, i + 1, Len(s))
    THEN Panic("slice bounds out of range")
    ELSE IF Slice(s, 0, i) \notin Algorithms \/ ~Available(Slice(s, 0, i))
    THEN RetErr(ErrDigestUnsupported)
    ELSE IF HashSize(Slice(s, 0, i)) # Len(Slice(s, i + 1, Len(s)))
    THEN RetErr(ErrDigestInvalidLength)
    ELSE RetErr(nil)

\* Parse: d := Digest(s); return d, d.Validate()
Parse(s) == [DigestValidate(s) EXCEPT !.val = s]

\* Digest.String
String(s) == s

\* NewDigestFromHash(alg, hash): Digest(fmt.Sprintf("%s:%s", alg, hash))
NewDigestFromHash(alg, hash) == alg \o <<":">> \o hash

\* Digest.sepIndex
sepIndex(s) ==
    LET i == Index(s, ":") IN
    IF i < 0 THEN [panic |-> "no ':' separator in digest", i |-> i]
    ELSE [panic |-> NoPanic, i |-> i]

\* Digest.Algorithm
DigestAlgorithm(s) ==
    LET sep == sepIndex(s) IN
    IF sep.panic # NoPanic THEN Panic(sep.panic)
    ELSE IF ~SliceOK(s, 0, sep.i) THEN Panic("slice bounds out of range")
    ELSE IF Slice(s, 0, sep.i) = <<>> THEN Panic("empty digest algorithm for")
    ELSE IF Slice(s, 0, sep.i) \notin Algorithms THEN Panic("unrecognized algorithm")
    ELSE IF ~Available(Slice(s, 0, sep.i)) THEN Panic("unavailable algorithm")
    ELSE RetVal(Slice(s, 0, sep.i))

\* Digest.Hash slicing from the separator instead of from the character after it
DigestHashFromSeparator(s) ==
    LET sep == sepIndex(s) IN
    IF sep.panic # NoPanic THEN Panic(sep.panic)
    ELSE RetVal(Slice(s, sep.i, Len(s)))

\* Digest.Hash: the hash portion of the digest
DigestHash(s) ==
    LET sep == sepIndex(s) IN
    IF sep.panic # NoPanic THEN Panic(sep.panic)
    ELSE IF ~SliceOK(s, sep.i + 1, Len(s)) THEN Panic("slice bounds out of range")
    ELSE RetVal(Slice(s, sep.i + 1, Len(s)))

\* Digest.Hex: deprecated, Hash under another name
DigestHex(s) == DigestHash(s)

----------------------------------------------------------------------------
(* Hashes, digesters and verifiers *)

\* a hash.Hash: the size of its sum and the bytes written to it so far
NewHash(cryptoHash) == [size |-> cryptoHash.size, written |-> <<>>]
NoHash == [size |-> 0, written |-> <<>>]
NoDigester == [alg |-> <<>>, hash |-> NoHash]
NoVerifier == [live |-> FALSE, digest |-> <<>>, digester |-> NoDigester]

\* an io.Reader: the chunks its Read calls yield, in order, and the error of
\* the Read that ends it (io.EOF at the end of the content)
EOF == "EOF"
NoReader == [chunks |-> <<>>, err |-> EOF]

\* Algorithm.Hash
AlgorithmHash(a) ==
    IF ~Available(a)
    THEN IF a = <<>>
         THEN [panic |-> "empty digest algorithm, validate before calling Algorithm.Hash()",
               hash |-> NoHash]
         ELSE [panic |-> "not available (make sure it is imported)", hash |-> NoHash]
    ELSE [panic |-> NoPanic, hash |-> NewHash(algorithms[a])]

\* Algorithm.Digester
AlgorithmDigester(a) ==
    LET h == AlgorithmHash(a) IN
    [panic |-> h.panic,
     digester |-> IF h.panic # NoPanic THEN NoDigester ELSE [alg |-> a, hash |-> h.hash]]

\* the number that stands for the bytes written: one for each sequence of
\* ByteValues (no two contents collide)
RECURSIVE ContentCode(_)
ContentCode(w) ==
    IF w = <<>> THEN 0 ELSE 3 * ContentCode(SubSeq(w, 1, Len(w) - 1)) + w[Len(w)] + 1

\* hash.Sum(nil): size bytes computed from everything written so far
Sum(hash) ==
    [k \in 1..hash.size |-> (ContentCode(hash.written) * 37 + 101 * k) % 256]

\* hash.Write(b)
HashWrite(hash, b) == [hash EXCEPT !.written = @ \o b]

\* NewDigester(alg, hash)
NewDigester(alg, hash) == [alg |-> alg, hash |-> hash]

\* digester.Hash: the hash itself, not a copy
digesterHash(dg) == dg.hash

\* digester.hashString: the current encoded hash
hashString(dg) == EncodeToString(Sum(dg.hash))

\* digester.Digest: the digest of what was hashed so far
digesterDigest(dg) == NewDigestFromHash(dg.alg, hashString(dg))

\* Algorithm.FromBytes
AlgorithmFromBytes(alg, bytes) ==
    LET dg == AlgorithmDigester(alg) IN
    IF dg.panic # NoPanic THEN Panic(dg.panic)
    ELSE RetVal(digesterDigest([dg.digester EXCEPT
                                   !.hash = HashWrite(digesterHash(dg.digester), bytes)]))

\* string(p) and []byte(s): a string holds the bytes themselves, one
\* character for each byte value
ByteChars == [b \in ByteValues |-> IF b = 0 THEN "\\x00" ELSE "\\x01"]
StringOfBytes(bytes) == [k \in 1..Len(bytes) |-> ByteChars[bytes[k]]]
BytesOfString(s) ==
    [k \in 1..Len(s) |-> CHOOSE b \in ByteValues : ByteChars[b] = s[k]]

\* Algorithm.FromString
AlgorithmFromString(alg, s) == AlgorithmFromBytes(alg, BytesOfString(s))

\* io.Copy that stops after the first Read
CopyFirstRead(hash, chunks) ==
    IF chunks = <<>> THEN hash ELSE HashWrite(hash, Head(chunks))

\* io.Copy(hash, rd): what each Read yields is written to the hash, in order
RECURSIVE Copy(_, _)
Copy(hash, chunks) ==
    IF chunks = <<>> THEN hash ELSE Copy(HashWrite(hash, Head(chunks)), Tail(chunks))

\* Algorithm.FromReader: the empty Digest and the error of the reader when it
\* is not io.EOF
AlgorithmFromReader(alg, rd) ==
    LET dg == AlgorithmDigester(alg) IN
    IF dg.panic # NoPanic THEN Panic(dg.panic)
    ELSE IF rd.err # EOF THEN RetErr(rd.err)
    ELSE RetVal(digesterDigest([dg.digester EXCEPT
                                   !.hash = Copy(digesterHash(dg.digester), rd.chunks)]))

\* the package-level FromReader, FromBytes and FromString
FromReader(rd) == AlgorithmFromReader(Canonical, rd)
FromBytes(bytes) == AlgorithmFromBytes(Canonical, bytes)
FromString(s) == AlgorithmFromString(Canonical, s)

\* Digest.Verifier with the digester of Canonical
DigestVerifierCanonical(s) ==
    LET alg == DigestAlgorithm(s) IN
    IF alg.panic # NoPanic THEN [panic |-> alg.panic, verifier |-> NoVerifier]
    ELSE LET dg == AlgorithmDigester(Canonical) IN
         IF dg.panic # NoPanic THEN [panic |-> dg.panic, verifier |-> NoVerifier]
         ELSE [panic |-> NoPanic,
               verifier |-> [live |-> TRUE, digest |-> s, digester |-> dg.digester]]

\* Digest.Verifier
DigestVerifier(s) ==
    LET alg == DigestAlgorithm(s) IN
    IF alg.panic # NoPanic THEN [panic |-> alg.panic, verifier |-> NoVerifier]
    ELSE LET dg == AlgorithmDigester(alg.val) IN
         IF dg.panic # NoPanic THEN [panic |-> dg.panic, verifier |-> NoVerifier]
         ELSE [panic |-> NoPanic,
               verifier |-> [live |-> TRUE, digest |-> s, digester |-> dg.digester]]

\* hashVerifier.Write: forwards the bytes to the hash of the digester
hashVerifierWrite(v, b) ==
    [v EXCEPT !.digester.hash = HashWrite(digesterHash(v.digester), b)]

\* hashVerifier.Verified: the target equals the current digest of the digester
hashVerifierVerified(v) == v.digest = digesterDigest(v.digester)

----------------------------------------------------------------------------
(* Goroutines and the registry lock *)

Goroutines == 1..MaxGoroutines

\* algorithmsLock when no goroutine holds it
\* writer holds it for writing, readers is the number of read locks held,
\* waiting is the writer that announced itself while read locks were held
Unlocked == [writer |-> 0, readers |-> 0, waiting |-> 0]

\* a goroutine that is in no call of the package
Idle == [pc |-> "idle", name |-> "none", algorithm |-> <<>>,
         implementation |-> CanonicalHash, encoded |-> <<>>, size |-> 0,
         ret |-> RetErr(nil)]

----------------------------------------------------------------------------
(* The operations *)

Init ==
    /\ algorithms = (Canonical :> CanonicalHash)
    /\ anchoredEncodedRegexps = (Canonical :> hexDigestRegex(CanonicalHash))
    /\ d \in Strings
    /\ receiver = Canonical
    /\ p = <<>>
    /\ op = "init"
    /\ ret = RetErr(nil)
    /\ validated = FALSE
    /\ verifier = NoVerifier
    /\ stream = <<>>
    /\ digester = NoDigester
    /\ written = <<>>
    /\ reader = NoReader
    /\ sinks = <<>>
    /\ arg = <<>>
    /\ flag = Canonical
    /\ algorithmsLock = Unlocked
    /\ calls = [t \in Goroutines |-> Idle]

\* RegisterAlgorithm without the check for a name that is already registered
RegisterAlgorithmOverwriting(algorithm, implementation) ==
    /\ op' = "RegisterAlgorithm"
    /\ IF ~algorithmRegexp(algorithm)
       THEN /\ ret' = Panic("has a name which does not fit within the allowed grammar")
            /\ UNCHANGED <<algorithms, anchoredEncodedRegexps>>
       ELSE /\ algorithms' =
                   [n \in DOMAIN algorithms \cup {algorithm} |->
                       IF n = algorithm THEN implementation ELSE algorithms[n]]
            /\ anchoredEncodedRegexps' =
                   [n \in DOMAIN anchoredEncodedRegexps \cup {algorithm} |->
                       IF n = algorithm THEN hexDigestRegex(implementation)
                       ELSE anchoredEncodedRegexps[n]]
            /\ ret' = RetBool(TRUE)
    /\ UNCHANGED <<d, receiver, p, validated, verifier, stream>>
    /\ UNCHANGED <<digesterVars, setVars, lockVars>>

\* RegisterAlgorithm storing the matcher ahead of the check for a name that is
\* already registered
RegisterAlgorithmMatcherFirst(algorithm, implementation) ==
    /\ op' = "RegisterAlgorithm"
    /\ IF ~algorithmRegexp(algorithm)
       THEN /\ ret' = Panic("has a name which does not fit within the allowed grammar")
            /\ UNCHANGED <<algorithms, anchoredEncodedRegexps>>
       ELSE /\ anchoredEncodedRegexps' =
                   [n \in DOMAIN anchoredEncodedRegexps \cup {algorithm} |->
                       IF n = algorithm THEN hexDigestRegex(implementation)
                       ELSE anchoredEncodedRegexps[n]]
            /\ IF algorithm \in DOMAIN algorithms
               THEN /\ ret' = RetBool(FALSE)
                    /\ UNCHANGED algorithms
               ELSE /\ algorithms' = (algorithm :> implementation) @@ algorithms
                    /\ ret' = RetBool(TRUE)
    /\ UNCHANGED <<d, receiver, p, validated, verifier, stream>>
    /\ UNCHANGED <<digesterVars, setVars, lockVars>>

\* RegisterAlgorithm(algorithm, implementation)
RegisterAlgorithm(algorithm, implementation) ==
    /\ op' = "RegisterAlgorithm"
    /\ IF ~algorithmRegexp(algorithm)
       THEN /\ ret' = Panic("has a name which does not fit within the allowed grammar")
            /\ UNCHANGED <<algorithms, anchoredEncodedRegexps>>
       ELSE IF algorithm \in DOMAIN algorithms
       THEN /\ ret' = RetBool(FALSE)
            /\ UNCHANGED <<algorithms, anchoredEncodedRegexps>>
       ELSE /\ algorithms' = (algorithm :> implementation) @@ algorithms
            /\ anchoredEncodedRegexps' =
                   (algorithm :> hexDigestRegex(implementation)) @@ anchoredEncodedRegexps
            /\ ret' = RetBool(TRUE)
    /\ UNCHANGED <<d, receiver, p, validated, verifier, stream>>
    /\ UNCHANGED <<digesterVars, setVars, lockVars>>

\* d.Validate()
Validate ==
    /\ op' = "Validate"
    /\ ret' = DigestValidate(d)
    /\ validated' = (validated \/ (ret'.panic = NoPanic /\ ret'.err = nil))
    /\ UNCHANGED <<algorithms, anchoredEncodedRegexps, d, receiver, p, verifier, stream>>
    /\ UNCHANGED <<digesterVars, setVars, lockVars>>

\* Parse(string(d))
DoParse ==
    /\ op' = "Parse"
    /\ ret' = Parse(String(d))
    /\ validated' = (validated \/ (ret'.panic = NoPanic /\ ret'.err = nil))
    /\ UNCHANGED <<algorithms, anchoredEncodedRegexps, d, receiver, p, verifier, stream>>
    /\ UNCHANGED <<digesterVars, setVars, lockVars>>

\* d.Algorithm()
DoAlgorithm ==
    /\ op' = "Algorithm"
    /\ ret' = DigestAlgorithm(d)
    /\ UNCHANGED <<algorithms, anchoredEncodedRegexps, d, receiver, p, validated, verifier, stream>>
    /\ UNCHANGED <<digesterVars, setVars, lockVars>>

\* d.Hash(), d.Hex()
DoHash ==
    /\ op' = "Hash"
    /\ ret' = DigestHex(d)
    /\ UNCHANGED <<algorithms, anchoredEncodedRegexps, d, receiver, p, validated, verifier, stream>>
    /\ UNCHANGED <<digesterVars, setVars, lockVars>>

\* d.Algorithm().Hash()
DoAlgorithmHash ==
    /\ op' = "Algorithm.Hash"
    /\ ret' = LET alg == DigestAlgorithm(d) IN
              IF alg.panic # NoPanic THEN alg
              ELSE IF AlgorithmHash(alg.val).panic # NoPanic
                   THEN Panic(AlgorithmHash(alg.val).panic)
                   ELSE RetVal(alg.val)
    /\ UNCHANGED <<algorithms, anchoredEncodedRegexps, d, receiver, p, validated, verifier, stream>>
    /\ UNCHANGED <<digesterVars, setVars, lockVars>>

\* d.Algorithm().Digester()
DoAlgorithmDigester ==
    /\ op' = "Algorithm.Digester"
    /\ ret' = LET alg == DigestAlgorithm(d) IN
              IF alg.panic # NoPanic THEN alg
              ELSE IF AlgorithmDigester(alg.val).panic # NoPanic
                   THEN Panic(AlgorithmDigester(alg.val).panic)
                   ELSE RetVal(AlgorithmDigester(alg.val).digester.alg)
    /\ UNCHANGED <<algorithms, anchoredEncodedRegexps, d, receiver, p, validated, verifier, stream>>
    /\ UNCHANGED <<digesterVars, setVars, lockVars>>

\* d.Verifier()
DoVerifier ==
    /\ op' = "Verifier"
    /\ LET v == DigestVerifier(d) IN
       /\ ret' = IF v.panic # NoPanic THEN Panic(v.panic) ELSE RetVal(v.verifier.digest)
       /\ verifier' = IF v.panic # NoPanic THEN verifier ELSE v.verifier
       /\ stream' = IF v.panic # NoPanic THEN stream ELSE <<>>
    /\ UNCHANGED <<algorithms, anchoredEncodedRegexps, d, receiver, p, validated>>
    /\ UNCHANGED <<digesterVars, setVars, lockVars>>

\* NewDigestFromHash(d.Algorithm().String(), d.Hash()): the digest rebuilt
\* from its two portions
DoNewDigestFromHash ==
    /\ op' = "NewDigestFromHash"
    /\ ret' = LET alg == DigestAlgorithm(d)
                  hash == DigestHash(d) IN
              IF alg.panic # NoPanic THEN alg
              ELSE IF hash.panic # NoPanic THEN hash
              ELSE RetVal(NewDigestFromHash(String(alg.val), hash.val))
    /\ UNCHANGED <<algorithms, anchoredEncodedRegexps, d, receiver, p, validated, verifier, stream>>
    /\ UNCHANGED <<digesterVars, setVars, lockVars>>

Register == \E call \in RegisterCalls : RegisterAlgorithm(call[1], call[2])

\* validation of a string that came from outside
Next ==
    \/ Register
    \/ Validate
    \/ DoParse

Spec == Init /\ [][Next]_vars

\* the accessors of a digest, validated or not
NextAccess ==
    \/ Register
    \/ Validate
    \/ DoParse
    \/ DoAlgorithm
    \/ DoHash
    \/ DoAlgorithmHash
    \/ DoAlgorithmDigester
    \/ DoVerifier
    \/ DoNewDigestFromHash

SpecAccess == Init /\ [][NextAccess]_vars

\* the digests the digesting operations start from: none, and a digest that
\* is valid when the package is initialized
StartDigests == {<<>>, <<"a", ":", "f", "f">>}

\* the algorithms the digesting operations are applied to
Receivers == {<<"a">>, <<"m">>, <<>>}

InitDigest ==
    /\ algorithms = (Canonical :> CanonicalHash)
    /\ anchoredEncodedRegexps = (Canonical :> hexDigestRegex(CanonicalHash))
    /\ d \in StartDigests
    /\ receiver \in Receivers
    /\ p \in ByteSlices
    /\ op = "init"
    /\ ret = RetErr(nil)
    /\ validated = FALSE
    /\ verifier = NoVerifier
    /\ stream = <<>>
    /\ digester = NoDigester
    /\ written = <<>>
    /\ reader = NoReader
    /\ sinks = <<>>
    /\ arg = <<>>
    /\ flag = Canonical
    /\ algorithmsLock = Unlocked
    /\ calls = [t \in Goroutines |-> Idle]

\* d = receiver.FromBytes(p)
DoFromBytes ==
    /\ op' = "FromBytes"
    /\ ret' = AlgorithmFromBytes(receiver, p)
    /\ d' = IF ret'.panic # NoPanic THEN d ELSE ret'.val
    /\ validated' = FALSE
    /\ UNCHANGED <<algorithms, anchoredEncodedRegexps, receiver, p, verifier, stream>>
    /\ UNCHANGED <<digesterVars, setVars, lockVars>>

\* verifier.Write(b)
DoWrite(b) ==
    /\ verifier.live
    /\ Len(stream) + Len(b) <= MaxBytes
    /\ op' = "Write"
    /\ verifier' = hashVerifierWrite(verifier, b)
    /\ stream' = stream \o b
    /\ ret' = RetErr(nil)
    /\ UNCHANGED <<algorithms, anchoredEncodedRegexps, d, receiver, p, validated>>
    /\ UNCHANGED <<digesterVars, setVars, lockVars>>

\* verifier.Verified()
DoVerified ==
    /\ verifier.live
    /\ op' = "Verified"
    /\ ret' = RetBool(hashVerifierVerified(verifier))
    /\ UNCHANGED <<algorithms, anchoredEncodedRegexps, d, receiver, p, validated, verifier,
                   stream>>
    /\ UNCHANGED <<digesterVars, setVars, lockVars>>

\* digesting bytes and verifying a stream against a digest
NextDigest ==
    \/ Register
    \/ DoFromBytes
    \/ Validate
    \/ DoVerifier
    \/ \E b \in ByteSlices : DoWrite(b)
    \/ DoVerified

SpecDigest == InitDigest /\ [][NextDigest]_vars

\* digester = receiver.Digester()
DoDigester ==
    /\ op' = "Digester"
    /\ LET dg == AlgorithmDigester(receiver) IN
       /\ ret' = IF dg.panic # NoPanic THEN Panic(dg.panic) ELSE RetVal(dg.digester.alg)
       /\ digester' = IF dg.panic # NoPanic THEN digester ELSE dg.digester
       /\ written' = IF dg.panic # NoPanic THEN written ELSE <<>>
    /\ UNCHANGED <<algorithms, anchoredEncodedRegexps, d, receiver, p, validated, verifier, stream>>
    /\ UNCHANGED <<reader, sinks, setVars, lockVars>>

\* digester.Hash().Write(b)
DoHashWrite(b) ==
    /\ digester # NoDigester
    /\ Len(written) + Len(b) <= MaxBytes
    /\ op' = "Hash.Write"
    /\ digester' = [digester EXCEPT !.hash = HashWrite(digesterHash(digester), b)]
    /\ written' = written \o b
    /\ ret' = RetErr(nil)
    /\ UNCHANGED <<algorithms, anchoredEncodedRegexps, d, receiver, p, validated, verifier, stream>>
    /\ UNCHANGED <<reader, sinks, setVars, lockVars>>

\* digester.Digest() with a hash that is reset once its sum is taken
DoDigestResetting ==
    /\ digester # NoDigester
    /\ op' = "Digest"
    /\ ret' = RetVal(digesterDigest(digester))
    /\ digester' = [digester EXCEPT !.hash.written = <<>>]
    /\ UNCHANGED <<algorithms, anchoredEncodedRegexps, d, receiver, p, validated, verifier, stream>>
    /\ UNCHANGED <<written, reader, sinks, setVars, lockVars>>

\* digester.Digest(): hash.Sum(nil) appends the current sum to nil and leaves
\* the state of the hash as it is
DoDigest ==
    /\ digester # NoDigester
    /\ op' = "Digest"
    /\ ret' = RetVal(digesterDigest(digester))
    /\ UNCHANGED <<algorithms, anchoredEncodedRegexps, d, receiver, p, validated, verifier, stream>>
    /\ UNCHANGED <<digesterVars, setVars, lockVars>>

\* writing to a digester and taking snapshots of its digest
NextDigester ==
    \/ Register
    \/ DoDigester
    \/ \E b \in ByteSlices : DoHashWrite(b)
    \/ DoDigest

SpecDigester == InitDigest /\ [][NextDigester]_vars

\* the registry when the package is initialized, and one digest to look up
InitRegistry ==
    /\ algorithms = (Canonical :> CanonicalHash)
    /\ anchoredEncodedRegexps = (Canonical :> hexDigestRegex(CanonicalHash))
    /\ d \in StartDigests
    /\ receiver \in Receivers
    /\ p = <<>>
    /\ op = "init"
    /\ ret = RetErr(nil)
    /\ validated = FALSE
    /\ verifier = NoVerifier
    /\ stream = <<>>
    /\ digester = NoDigester
    /\ written = <<>>
    /\ reader = NoReader
    /\ sinks = <<>>
    /\ arg = <<>>
    /\ flag = Canonical
    /\ algorithmsLock = Unlocked
    /\ calls = [t \in Goroutines |-> Idle]

\* registrations, and the operations that look the registry up
NextRegistry ==
    \/ Register
    \/ Validate
    \/ DoAlgorithm
    \/ DoAlgorithmHash
    \/ DoVerifier
    \/ DoDigester
    \/ DoFromBytes

SpecRegistry == InitRegistry /\ [][NextRegistry]_vars

----------------------------------------------------------------------------
(* Looking an algorithm up *)

\* the names looked up: the canonical one, the second one, the empty one and
\* one outside the grammar
LookupNames == {<<"a">>, <<"m">>, <<>>, <<"_">>}

\* a.Available()
DoAvailable(a) ==
    /\ op' = "Available"
    /\ receiver' = a
    /\ ret' = RetBool(Available(a))
    /\ UNCHANGED <<algorithms, anchoredEncodedRegexps, d, p, validated, verifier, stream>>
    /\ UNCHANGED <<digesterVars, setVars, lockVars>>

\* a.Size()
DoSize(a) ==
    /\ op' = "Size"
    /\ receiver' = a
    /\ ret' = RetVal(Size(a))
    /\ UNCHANGED <<algorithms, anchoredEncodedRegexps, d, p, validated, verifier, stream>>
    /\ UNCHANGED <<digesterVars, setVars, lockVars>>

\* lookups between registrations
NextLookup ==
    \/ Register
    \/ \E a \in LookupNames : DoAvailable(a)
    \/ \E a \in LookupNames : DoSize(a)

SpecLookup == InitRegistry /\ [][NextLookup]_vars

----------------------------------------------------------------------------
(* Digesting bytes, strings and readers *)

\* the ways a reader hands out the bytes b: every split into chunks that are
\* not empty
RECURSIVE Chunkings(_)
Chunkings(b) ==
    IF b = <<>> THEN {<<>>}
    ELSE UNION {{<<SubSeq(b, 1, k)>> \o c : c \in Chunkings(SubSeq(b, k + 1, Len(b)))} :
                   k \in 1..Len(b)}

\* the bytes a reader yields in all
RECURSIVE Flatten(_)
Flatten(chunks) == IF chunks = <<>> THEN <<>> ELSE Head(chunks) \o Flatten(Tail(chunks))

\* the readers over p: all of p, chunked in every way, with io.EOF; and a
\* prefix of p with an error that is not io.EOF
ReadError == "unexpected read error"
Readers(bytes) ==
    {[chunks |-> c, err |-> EOF] : c \in Chunkings(bytes)}
    \cup {[chunks |-> c, err |-> ReadError] :
             c \in UNION {Chunkings(SubSeq(bytes, 1, k)) : k \in 0..Len(bytes)}}

\* receiver.FromString(string(p))
DoFromString ==
    /\ op' = "FromString"
    /\ ret' = AlgorithmFromString(receiver, StringOfBytes(p))
    /\ UNCHANGED <<algorithms, anchoredEncodedRegexps, d, receiver, p, validated, verifier, stream>>
    /\ UNCHANGED <<digesterVars, setVars, lockVars>>

\* receiver.FromReader(rd)
DoFromReader(rd) ==
    /\ op' = "FromReader"
    /\ reader' = rd
    /\ ret' = AlgorithmFromReader(receiver, rd)
    /\ UNCHANGED <<algorithms, anchoredEncodedRegexps, d, receiver, p, validated, verifier, stream>>
    /\ UNCHANGED <<digester, written, sinks, setVars, lockVars>>

\* digest.FromBytes(p), digest.FromString(string(p)), digest.FromReader(rd)
DoPackageFrom(rd) ==
    /\ \/ op' = "digest.FromBytes" /\ ret' = FromBytes(p)
       \/ op' = "digest.FromString" /\ ret' = FromString(StringOfBytes(p))
       \/ op' = "digest.FromReader" /\ ret' = FromReader(rd)
    /\ reader' = rd
    /\ UNCHANGED <<algorithms, anchoredEncodedRegexps, d, receiver, p, validated, verifier, stream>>
    /\ UNCHANGED <<digester, written, sinks, setVars, lockVars>>

\* the three ways of digesting the same content, between registrations
NextFrom ==
    \/ Register
    \/ DoFromBytes
    \/ DoFromString
    \/ \E rd \in Readers(p) : DoFromReader(rd)
    \/ \E rd \in Readers(p) : DoPackageFrom(rd)

SpecFrom == InitDigest /\ [][NextFrom]_vars

----------------------------------------------------------------------------
(* Selecting an algorithm: Algorithm.Set and AlgorithmFlag.Set *)

\* Algorithm.Set that takes every value verbatim, the empty one too
AlgorithmSetVerbatim(a, value) ==
    [a |-> value,
     ret |-> IF ~Available(value) THEN RetErr(ErrDigestUnsupported) ELSE RetErr(nil)]

\* Algorithm.Set: *a is assigned first (Canonical for the empty value, the
\* value converted otherwise), a.Available() is asked afterwards
AlgorithmSet(a, value) ==
    LET assigned == IF value = <<>> THEN Canonical ELSE value IN
    [a |-> assigned,
     ret |-> IF ~Available(assigned) THEN RetErr(ErrDigestUnsupported) ELSE RetErr(nil)]

\* AlgorithmFlag.Set assigning the value ahead of the lookup
AlgorithmFlagSetAssignFirst(f, value) ==
    IF value = <<>> THEN [flag |-> Canonical, ret |-> RetErr(nil)]
    ELSE IF value \notin Algorithms \/ ~Available(value)
    THEN [flag |-> value, ret |-> RetErr(ErrDigestUnsupported)]
    ELSE [flag |-> value, ret |-> RetErr(nil)]

\* AlgorithmFlag.Set: flag.Algorithm is assigned once the value was found in
\* Algorithms and is available
AlgorithmFlagSet(f, value) ==
    IF value = <<>> THEN [flag |-> Canonical, ret |-> RetErr(nil)]
    ELSE IF value \notin Algorithms \/ ~Available(value)
    THEN [flag |-> f, ret |-> RetErr(ErrDigestUnsupported)]
    ELSE [flag |-> value, ret |-> RetErr(nil)]

\* the values given to Set: the empty string and every string of one character
SetValues == UNION {[1..n -> Alphabet] : n \in 0..1}

\* receiver.Set(value)
DoSet(value) ==
    /\ op' = "Set"
    /\ arg' = value
    /\ receiver' = AlgorithmSet(receiver, value).a
    /\ ret' = AlgorithmSet(receiver, value).ret
    /\ UNCHANGED <<algorithms, anchoredEncodedRegexps, d, p, validated, verifier, stream>>
    /\ UNCHANGED <<digesterVars, flag, lockVars>>

\* flag.Set(value)
DoFlagSet(value) ==
    /\ op' = "Flag.Set"
    /\ arg' = value
    /\ flag' = AlgorithmFlagSet(flag, value).flag
    /\ ret' = AlgorithmFlagSet(flag, value).ret
    /\ UNCHANGED <<algorithms, anchoredEncodedRegexps, d, receiver, p, validated, verifier,
                   stream>>
    /\ UNCHANGED <<digesterVars, lockVars>>

\* an Algorithm and an AlgorithmFlag that both start at Canonical
InitSet ==
    /\ algorithms = (Canonical :> CanonicalHash)
    /\ anchoredEncodedRegexps = (Canonical :> hexDigestRegex(CanonicalHash))
    /\ d = <<>>
    /\ receiver = Canonical
    /\ p = <<>>
    /\ op = "init"
    /\ ret = RetErr(nil)
    /\ validated = FALSE
    /\ verifier = NoVerifier
    /\ stream = <<>>
    /\ digester = NoDigester
    /\ written = <<>>
    /\ reader = NoReader
    /\ sinks = <<>>
    /\ arg = <<>>
    /\ flag = Canonical
    /\ algorithmsLock = Unlocked
    /\ calls = [t \in Goroutines |-> Idle]

\* selections between registrations
NextSet ==
    \/ Register
    \/ \E value \in SetValues : DoSet(value)
    \/ \E value \in SetValues : DoFlagSet(value)

SpecSet == InitSet /\ [][NextSet]_vars

----------------------------------------------------------------------------
(* Text unmarshaling *)

\* Digest.UnmarshalText(text) on the destination dest: an empty text gives the
\* empty Digest; any other text is validated first and assigned only when it
\* is valid
UnmarshalText(dest, text) ==
    IF Len(text) = 0 THEN [d |-> <<>>, ret |-> RetErr(nil)]
    ELSE LET v == DigestValidate(text) IN
         IF v.panic # NoPanic \/ v.err # nil THEN [d |-> dest, ret |-> v]
         ELSE [d |-> text, ret |-> RetErr(nil)]

\* the texts unmarshaled: the strings of "a" and ":" and the same strings with
\* the name of the second algorithm in front instead of their first character
UnmarshalTexts ==
    LET tails == UNION {[1..n -> {"a", ":"}] : n \in 0..MaxLen} IN
    tails \cup {[t EXCEPT ![1] = "m"] : t \in tails \ {<<>>}}

\* d.UnmarshalText(text)
DoUnmarshalText(text) ==
    /\ op' = "UnmarshalText"
    /\ arg' = text
    /\ LET r == UnmarshalText(d, text) IN
       /\ d' = r.d
       /\ ret' = r.ret
       /\ validated' = IF text = <<>> THEN FALSE
                       ELSE IF r.ret.panic = NoPanic /\ r.ret.err = nil THEN TRUE
                       ELSE validated
    /\ UNCHANGED <<algorithms, anchoredEncodedRegexps, receiver, p, verifier, stream>>
    /\ UNCHANGED <<digesterVars, flag, lockVars>>

\* a destination that starts empty
InitUnmarshal ==
    /\ algorithms = (Canonical :> CanonicalHash)
    /\ anchoredEncodedRegexps = (Canonical :> hexDigestRegex(CanonicalHash))
    /\ d = <<>>
    /\ receiver = Canonical
    /\ p = <<>>
    /\ op = "init"
    /\ ret = RetErr(nil)
    /\ validated = FALSE
    /\ verifier = NoVerifier
    /\ stream = <<>>
    /\ digester = NoDigester
    /\ written = <<>>
    /\ reader = NoReader
    /\ sinks = <<>>
    /\ arg = <<>>
    /\ flag = Canonical
    /\ algorithmsLock = Unlocked
    /\ calls = [t \in Goroutines |-> Idle]

\* unmarshaling texts into one destination, between registrations
NextUnmarshal ==
    \/ Register
    \/ \E text \in UnmarshalTexts : DoUnmarshalText(text)

SpecUnmarshal == InitUnmarshal /\ [][NextUnmarshal]_vars

----------------------------------------------------------------------------
(* The registry under concurrent calls: each goroutine makes one call, and  *)
(* a call is the sequence of its steps under algorithmsLock                 *)

\* the variables the steps of a goroutine leave alone
sequentialVars == <<d, receiver, p, op, ret, validated, verifier, stream>>

\* the calls the goroutines make: registrations of the second name with two
\* implementations, of the canonical name, of a name outside the grammar
ConcurrentRegisterCalls ==
    {<<(<<"m">>), [available |-> TRUE, size |-> 1]>>,
     <<(<<"m">>), [available |-> TRUE, size |-> MaxSize]>>,
     <<Canonical, CanonicalHash>>,
     <<(<<"_">>), CanonicalHash>>}

\* m[k] = v of a Go map
MapAssign(m, k, v) == [n \in DOMAIN m \cup {k} |-> IF n = k THEN v ELSE m[n]]

\* a goroutine enters RegisterAlgorithm(algorithm, implementation)
CallRegisterAlgorithm(t, algorithm, implementation) ==
    /\ calls[t].pc = "idle"
    /\ calls' = [calls EXCEPT ![t] =
                    [pc |-> "Lock", name |-> "RegisterAlgorithm", algorithm |-> algorithm,
                     implementation |-> implementation, encoded |-> <<>>, size |-> 0,
                     ret |-> RetErr(nil)]]
    /\ UNCHANGED <<algorithms, anchoredEncodedRegexps, algorithmsLock>>
    /\ UNCHANGED <<sequentialVars, digesterVars, setVars>>

\* algorithmsLock.Lock() that does not wait
LockUnguarded(t) ==
    /\ calls[t].pc = "Lock"
    /\ algorithmsLock' = [algorithmsLock EXCEPT !.writer = t]
    /\ calls' = [calls EXCEPT ![t].pc = "check"]
    /\ UNCHANGED <<algorithms, anchoredEncodedRegexps>>
    /\ UNCHANGED <<sequentialVars, digesterVars, setVars>>

\* algorithmsLock.Lock() while read locks are held: the writer announces
\* itself, which makes later RLock calls wait, and waits for the readers
LockWait(t) ==
    /\ calls[t].pc = "Lock"
    /\ algorithmsLock.writer = 0
    /\ algorithmsLock.waiting = 0
    /\ algorithmsLock.readers > 0
    /\ algorithmsLock' = [algorithmsLock EXCEPT !.waiting = t]
    /\ UNCHANGED <<algorithms, anchoredEncodedRegexps, calls>>
    /\ UNCHANGED <<sequentialVars, digesterVars, setVars>>

\* algorithmsLock.Lock(): waits until no goroutine holds the lock, behind a
\* writer that announced itself first
Lock(t) ==
    /\ calls[t].pc = "Lock"
    /\ algorithmsLock.writer = 0
    /\ algorithmsLock.readers = 0
    /\ algorithmsLock.waiting \in {0, t}
    /\ algorithmsLock' = [algorithmsLock EXCEPT !.writer = t, !.waiting = 0]
    /\ calls' = [calls EXCEPT ![t].pc = "check"]
    /\ UNCHANGED <<algorithms, anchoredEncodedRegexps>>
    /\ UNCHANGED <<sequentialVars, digesterVars, setVars>>

\* the checks of RegisterAlgorithm with an Unlock that is not deferred: a
\* panic leaves the function with the lock held
CheckNameHoldingLock(t) ==
    /\ calls[t].pc = "check"
    /\ IF ~algorithmRegexp(calls[t].algorithm)
       THEN /\ calls' = [calls EXCEPT
                   ![t].pc = "done",
                   ![t].ret = Panic("has a name which does not fit within the allowed grammar")]
            /\ UNCHANGED algorithmsLock
       ELSE IF calls[t].algorithm \in DOMAIN algorithms
       THEN /\ calls' = [calls EXCEPT ![t].pc = "done", ![t].ret = RetBool(FALSE)]
            /\ algorithmsLock' = [algorithmsLock EXCEPT !.writer = 0]
       ELSE /\ calls' = [calls EXCEPT ![t].pc = "store"]
            /\ UNCHANGED algorithmsLock
    /\ UNCHANGED <<algorithms, anchoredEncodedRegexps>>
    /\ UNCHANGED <<sequentialVars, digesterVars, setVars>>

\* the checks of RegisterAlgorithm: a panic for a name outside the grammar,
\* false for a name that is registered; the deferred Unlock runs on both
CheckName(t) ==
    /\ calls[t].pc = "check"
    /\ IF ~algorithmRegexp(calls[t].algorithm)
       THEN /\ calls' = [calls EXCEPT
                   ![t].pc = "done",
                   ![t].ret = Panic("has a name which does not fit within the allowed grammar")]
            /\ algorithmsLock' = [algorithmsLock EXCEPT !.writer = 0]
       ELSE IF calls[t].algorithm \in DOMAIN algorithms
       THEN /\ calls' = [calls EXCEPT ![t].pc = "done", ![t].ret = RetBool(FALSE)]
            /\ algorithmsLock' = [algorithmsLock EXCEPT !.writer = 0]
       ELSE /\ calls' = [calls EXCEPT ![t].pc = "store"]
            /\ UNCHANGED algorithmsLock
    /\ UNCHANGED <<algorithms, anchoredEncodedRegexps>>
    /\ UNCHANGED <<sequentialVars, digesterVars, setVars>>

\* algorithms[algorithm] = implementation, with the Unlock run before the
\* matcher is stored
StoreImplementationThenUnlock(t) ==
    /\ calls[t].pc = "store"
    /\ algorithms' = MapAssign(algorithms, calls[t].algorithm, calls[t].implementation)
    /\ calls' = [calls EXCEPT ![t].pc = "matcher"]
    /\ algorithmsLock' = [algorithmsLock EXCEPT !.writer = 0]
    /\ UNCHANGED anchoredEncodedRegexps
    /\ UNCHANGED <<sequentialVars, digesterVars, setVars>>

\* algorithms[algorithm] = implementation
StoreImplementation(t) ==
    /\ calls[t].pc = "store"
    /\ algorithms' = MapAssign(algorithms, calls[t].algorithm, calls[t].implementation)
    /\ calls' = [calls EXCEPT ![t].pc = "matcher"]
    /\ UNCHANGED <<anchoredEncodedRegexps, algorithmsLock>>
    /\ UNCHANGED <<sequentialVars, digesterVars, setVars>>

\* anchoredEncodedRegexps[algorithm] = hexDigestRegex(implementation); return
\* true; the deferred Unlock
StoreMatcher(t) ==
    /\ calls[t].pc = "matcher"
    /\ anchoredEncodedRegexps' =
           MapAssign(anchoredEncodedRegexps, calls[t].algorithm,
                     hexDigestRegex(calls[t].implementation))
    /\ calls' = [calls EXCEPT ![t].pc = "done", ![t].ret = RetBool(TRUE)]
    /\ algorithmsLock' = [algorithmsLock EXCEPT !.writer = 0]
    /\ UNCHANGED algorithms
    /\ UNCHANGED <<sequentialVars, digesterVars, setVars>>

\* a goroutine enters a.Available()
CallAvailable(t, a) ==
    /\ calls[t].pc = "idle"
    /\ calls' = [calls EXCEPT ![t] =
                    [pc |-> "RLock", name |-> "Available", algorithm |-> a,
                     implementation |-> CanonicalHash, encoded |-> <<>>, size |-> 0,
                     ret |-> RetErr(nil)]]
    /\ UNCHANGED <<algorithms, anchoredEncodedRegexps, algorithmsLock>>
    /\ UNCHANGED <<sequentialVars, digesterVars, setVars>>

\* algorithmsLock.RLock(), in Available, in Validate and in the Size that
\* Validate calls: waits while a goroutine holds the lock for writing or
\* waits for it
RLock(t) ==
    /\ calls[t].pc \in {"RLock", "Size.RLock"}
    /\ algorithmsLock.writer = 0
    /\ algorithmsLock.waiting = 0
    /\ algorithmsLock' = [algorithmsLock EXCEPT !.readers = @ + 1]
    /\ calls' = [calls EXCEPT ![t].pc =
                    IF calls[t].pc = "Size.RLock" THEN "Size.read"
                    ELSE IF calls[t].name = "Validate" THEN "lookup" ELSE "read"]
    /\ UNCHANGED <<algorithms, anchoredEncodedRegexps>>
    /\ UNCHANGED <<sequentialVars, digesterVars, setVars>>

\* the lookup of Algorithm.Available, its return and the deferred RUnlock
ReadAvailable(t) ==
    /\ calls[t].pc = "read"
    /\ calls' = [calls EXCEPT ![t].pc = "done",
                              ![t].ret = RetBool(Available(calls[t].algorithm))]
    /\ algorithmsLock' = [algorithmsLock EXCEPT !.readers = @ - 1]
    /\ UNCHANGED <<algorithms, anchoredEncodedRegexps>>
    /\ UNCHANGED <<sequentialVars, digesterVars, setVars>>

InitConcurrent ==
    /\ algorithms = (Canonical :> CanonicalHash)
    /\ anchoredEncodedRegexps = (Canonical :> hexDigestRegex(CanonicalHash))
    /\ d = <<>>
    /\ receiver = Canonical
    /\ p = <<>>
    /\ op = "init"
    /\ ret = RetErr(nil)
    /\ validated = FALSE
    /\ verifier = NoVerifier
    /\ stream = <<>>
    /\ digester = NoDigester
    /\ written = <<>>
    /\ reader = NoReader
    /\ sinks = <<>>
    /\ arg = <<>>
    /\ flag = Canonical
    /\ algorithmsLock = Unlocked
    /\ calls = [t \in Goroutines |-> Idle]

NextConcurrent ==
    \E t \in Goroutines :
        \/ \E call \in ConcurrentRegisterCalls : CallRegisterAlgorithm(t, call[1], call[2])
        \/ LockWait(t)
        \/ Lock(t)
        \/ CheckName(t)
        \/ StoreImplementation(t)
        \/ StoreMatcher(t)
        \/ CallAvailable(t, <<"m">>)
        \/ RLock(t)
        \/ ReadAvailable(t)

SpecConcurrent == InitConcurrent /\ [][NextConcurrent]_vars

\* a goroutine that is inside a call is scheduled again
SpecConcurrentFair ==
    /\ SpecConcurrent
    /\ \A t \in Goroutines :
        /\ WF_vars(LockWait(t))
        /\ WF_vars(Lock(t))
        /\ WF_vars(CheckName(t))
        /\ WF_vars(StoreImplementation(t))
        /\ WF_vars(StoreMatcher(t))
        /\ WF_vars(RLock(t))
        /\ WF_vars(ReadAvailable(t))

----------------------------------------------------------------------------
(* Obtaining hashes from an algorithm and writing to them; a hash is        *)
(* referred to by its place in sinks                                        *)

\* a.Hash() that hands out the hash it returned first
DoNewHashShared(a) ==
    /\ Len(sinks) < MaxSinks
    /\ op' = "a.Hash"
    /\ receiver' = a
    /\ LET h == AlgorithmHash(a) IN
       IF h.panic # NoPanic
       THEN /\ ret' = Panic(h.panic)
            /\ UNCHANGED sinks
       ELSE IF sinks # <<>>
       THEN /\ ret' = RetVal(1)
            /\ UNCHANGED sinks
       ELSE /\ sinks' = Append(sinks, h.hash)
            /\ ret' = RetVal(Len(sinks'))
    /\ UNCHANGED <<algorithms, anchoredEncodedRegexps, d, p, validated, verifier, stream>>
    /\ UNCHANGED <<digester, written, reader, setVars, lockVars>>

\* a.Hash(): a panic, or the hash that algorithms[a].New() allocates
DoNewHash(a) ==
    /\ Len(sinks) < MaxSinks
    /\ op' = "a.Hash"
    /\ receiver' = a
    /\ LET h == AlgorithmHash(a) IN
       IF h.panic # NoPanic
       THEN /\ ret' = Panic(h.panic)
            /\ UNCHANGED sinks
       ELSE /\ sinks' = Append(sinks, h.hash)
            /\ ret' = RetVal(Len(sinks'))
    /\ UNCHANGED <<algorithms, anchoredEncodedRegexps, d, p, validated, verifier, stream>>
    /\ UNCHANGED <<digester, written, reader, setVars, lockVars>>

\* h.Write(b) on the hash a call of Hash() returned
DoSinkWrite(k, b) ==
    /\ k \in DOMAIN sinks
    /\ Len(sinks[k].written) + Len(b) <= MaxBytes
    /\ op' = "Write"
    /\ sinks' = [sinks EXCEPT ![k] = HashWrite(@, b)]
    /\ ret' = RetVal(k)
    /\ UNCHANGED <<algorithms, anchoredEncodedRegexps, d, receiver, p, validated, verifier, stream>>
    /\ UNCHANGED <<digester, written, reader, setVars, lockVars>>

\* hashes obtained and written to between registrations
NextHash ==
    \/ Register
    \/ \E a \in LookupNames : DoNewHash(a)
    \/ \E k \in 1..MaxSinks : \E b \in ByteSlices \ {<<>>} : DoSinkWrite(k, b)

SpecHash == InitConcurrent /\ [][NextHash]_vars

----------------------------------------------------------------------------
(* Algorithm.Validate beside registrations: the steps of Validate and of    *)
(* the Size it calls, under algorithmsLock                                  *)

\* the encoded parts validated: one of the canonical length, one too long
ValidateCalls ==
    {<<Canonical, <<"a", "a">> >>,
     <<Canonical, <<"a", "a", "a">> >>,
     <<(<<"m">>), <<"a", "a">> >>}

\* the registrations made beside them
ValidateRegisterCalls ==
    {<<(<<"m">>), [available |-> TRUE, size |-> 1]>>,
     <<Canonical, CanonicalHash>>}

\* a goroutine enters a.Validate(encoded)
CallValidate(t, a, encoded) ==
    /\ calls[t].pc = "idle"
    /\ calls' = [calls EXCEPT ![t] =
                    [pc |-> "RLock", name |-> "Validate", algorithm |-> a,
                     implementation |-> CanonicalHash, encoded |-> encoded, size |-> 0,
                     ret |-> RetErr(nil)]]
    /\ UNCHANGED <<algorithms, anchoredEncodedRegexps, algorithmsLock>>
    /\ UNCHANGED <<sequentialVars, digesterVars, setVars>>

\* r, ok := anchoredEncodedRegexps[a]; ErrDigestUnsupported and the deferred
\* RUnlock when the name has no matcher, otherwise on to a.Size()
LookupMatcher(t) ==
    /\ calls[t].pc = "lookup"
    /\ IF calls[t].algorithm \notin DOMAIN anchoredEncodedRegexps
       THEN /\ calls' = [calls EXCEPT ![t].pc = "done",
                                      ![t].ret = RetErr(ErrDigestUnsupported)]
            /\ algorithmsLock' = [algorithmsLock EXCEPT !.readers = @ - 1]
       ELSE /\ calls' = [calls EXCEPT ![t].pc = "Size.RLock"]
            /\ UNCHANGED algorithmsLock
    /\ UNCHANGED <<algorithms, anchoredEncodedRegexps>>
    /\ UNCHANGED <<sequentialVars, digesterVars, setVars>>

\* the lookup of Algorithm.Size, its return and its deferred RUnlock
ReadSize(t) ==
    /\ calls[t].pc = "Size.read"
    /\ calls' = [calls EXCEPT ![t].pc = "match", ![t].size = Size(calls[t].algorithm)]
    /\ algorithmsLock' = [algorithmsLock EXCEPT !.readers = @ - 1]
    /\ UNCHANGED <<algorithms, anchoredEncodedRegexps>>
    /\ UNCHANGED <<sequentialVars, digesterVars, setVars>>

\* the length check and the match of Algorithm.Validate, its return and the
\* deferred RUnlock
MatchEncoded(t) ==
    /\ calls[t].pc = "match"
    /\ calls' = [calls EXCEPT
            ![t].pc = "done",
            ![t].ret = RetErr(
                IF calls[t].size * 2 # Len(calls[t].encoded) THEN ErrDigestInvalidLength
                ELSE IF MatchHexDigest(anchoredEncodedRegexps[calls[t].algorithm],
                                       calls[t].encoded) THEN nil
                ELSE ErrDigestInvalidFormat)]
    /\ algorithmsLock' = [algorithmsLock EXCEPT !.readers = @ - 1]
    /\ UNCHANGED <<algorithms, anchoredEncodedRegexps>>
    /\ UNCHANGED <<sequentialVars, digesterVars, setVars>>

NextValidate ==
    \E t \in Goroutines :
        \/ \E call \in ValidateRegisterCalls : CallRegisterAlgorithm(t, call[1], call[2])
        \/ LockWait(t)
        \/ Lock(t)
        \/ CheckName(t)
        \/ StoreImplementation(t)
        \/ StoreMatcher(t)
        \/ \E call \in ValidateCalls : CallValidate(t, call[1], call[2])
        \/ RLock(t)
        \/ LookupMatcher(t)
        \/ ReadSize(t)
        \/ MatchEncoded(t)

SpecValidate == InitConcurrent /\ [][NextValidate]_vars

\* a goroutine that is inside a call is scheduled again
SpecValidateFair ==
    /\ SpecValidate
    /\ \A t \in Goroutines :
        /\ WF_vars(LockWait(t))
        /\ WF_vars(Lock(t))
        /\ WF_vars(CheckName(t))
        /\ WF_vars(StoreImplementation(t))
        /\ WF_vars(StoreMatcher(t))
        /\ WF_vars(RLock(t))
        /\ WF_vars(LookupMatcher(t))
        /\ WF_vars(ReadSize(t))
        /\ WF_vars(MatchEncoded(t))

----------------------------------------------------------------------------
(* Vocabulary of the specification for a digest string *)

\* the number of ':' in s
SeparatorCount(s) == Cardinality({k \in 1..Len(s) : s[k] = ":"})

\* s = a ':' e, split at the first ':'
HasSeparator(s) == Index(s, ":") >= 0
AlgorithmPart(s) == Slice(s, 0, Index(s, ":"))
EncodedPart(s) == Slice(s, Index(s, ":") + 1, Len(s))

RegisteredAndAvailable(a) == a \in DOMAIN algorithms /\ algorithms[a].available

\* Validate (or Parse) has just run on d and returned e
Returned(e) == ret.panic = NoPanic /\ ret.err = e
JustValidated == op \in {"Validate", "Parse"}

\* C1: Digest.Validate(s) returns nil if and only if s is a ':' e with exactly
\* one ':', a registered and available, and e made of characters of [a-f0-9]
\* only and of length exactly 2 x Size(a); every other string gets an error.
C1_ValidIffWellFormed ==
    JustValidated =>
        (Returned(nil) <=>
            /\ SeparatorCount(d) = 1
            /\ RegisteredAndAvailable(AlgorithmPart(d))
            /\ AllIn(EncodedPart(d), Digit \cup LowerAF)
            /\ Len(EncodedPart(d)) = 2 * algorithms[AlgorithmPart(d)].size)

\* C2: for a registered and available and e non-empty of a length other than
\* 2 x Size(a), Validate returns ErrDigestInvalidLength, whatever characters e
\* holds: the length is checked before the characters.
C2_WrongLengthIsInvalidLength ==
    (/\ JustValidated
     /\ HasSeparator(d)
     /\ RegisteredAndAvailable(AlgorithmPart(d))
     /\ Len(EncodedPart(d)) > 0
     /\ Len(EncodedPart(d)) # 2 * algorithms[AlgorithmPart(d)].size)
    => Returned(ErrDigestInvalidLength)

\* C3: for a registered and available and e of length 2 x Size(a) holding a
\* character outside [a-f0-9], Validate returns ErrDigestInvalidFormat (not
\* nil, not ErrDigestInvalidLength, not ErrDigestUnsupported).
C3_NonLowerHexIsInvalidFormat ==
    (/\ JustValidated
     /\ HasSeparator(d)
     /\ RegisteredAndAvailable(AlgorithmPart(d))
     /\ Len(EncodedPart(d)) = 2 * algorithms[AlgorithmPart(d)].size
     /\ ~AllIn(EncodedPart(d), Digit \cup LowerAF))
    => Returned(ErrDigestInvalidFormat)

\* C4: for a name a of the grammar that is not registered or not available and
\* e a non-empty string of letters, digits, '_' or '-', Validate returns
\* ErrDigestUnsupported: the lookup is decided before e is looked at.
C4_UnknownAlgorithmIsUnsupported ==
    (/\ JustValidated
     /\ HasSeparator(d)
     /\ algorithmRegexp(AlgorithmPart(d))
     /\ ~RegisteredAndAvailable(AlgorithmPart(d))
     /\ Len(EncodedPart(d)) > 0
     /\ AllIn(EncodedPart(d),
              Digit \cup LowerAF \cup LowerGZ \cup UpperAF \cup UpperGZ \cup {"_", "-"}))
    => Returned(ErrDigestUnsupported)

\* C5: Validate returns ErrDigestInvalidFormat for every s with no ':', with
\* its first ':' last (empty encoded portion) or first (empty algorithm), or
\* with an algorithm segment outside the name grammar, whatever e is.
C5_MalformedIsInvalidFormat ==
    (/\ JustValidated
     /\ \/ ~HasSeparator(d)
        \/ Index(d, ":") + 1 = Len(d)
        \/ Index(d, ":") = 0
        \/ ~algorithmRegexp(AlgorithmPart(d)))
    => Returned(ErrDigestInvalidFormat)

----------------------------------------------------------------------------
(* Properties of Parse and the accessors *)

Errors == {nil, ErrDigestInvalidFormat, ErrDigestInvalidLength, ErrDigestUnsupported}

\* C6: for every string and every registry state Parse and Validate return
\* without a panic, with an error that is nil or one of the three errors of the
\* package; Parse returns the string as a Digest with exactly the error of
\* Validate; and neither changes the registry.
C6_ParseNeverPanics ==
    /\ [](JustValidated =>
            /\ ret.panic = NoPanic
            /\ ret.err \in Errors
            /\ ret.err = DigestValidate(d).err
            /\ (op = "Parse" => ret.val = d))
    /\ [][(Validate \/ DoParse) =>
            UNCHANGED <<algorithms, anchoredEncodedRegexps>>]_vars

\* C6 witness: each of the four outcomes has been returned, Unsupported for an
\* implementation that is registered and reports unavailable
C6_Witness ==
    /\ op = "Parse"
    /\ ret.err = ErrDigestUnsupported
    /\ ret.val = <<"m", ":", "a", "a">>
    /\ <<"m">> \in DOMAIN algorithms

AccessorOps == {"Algorithm", "Hash", "Algorithm.Hash", "Algorithm.Digester", "Verifier"}

\* C7: once d.Validate() has returned nil, d.Algorithm(), d.Hash()/d.Hex(),
\* d.Algorithm().Hash(), d.Algorithm().Digester() and d.Verifier() do not
\* panic, then and after any later RegisterAlgorithm calls.
C7_ValidatedAccessorsNeverPanic ==
    (validated /\ op \in AccessorOps) => ret.panic = NoPanic

\* C7 witness: a verifier built from a validated digest after a later
\* registration of another algorithm
C7_Witness ==
    /\ validated
    /\ op = "Verifier"
    /\ ret.panic = NoPanic
    /\ verifier.live
    /\ <<"m">> \in DOMAIN algorithms
    /\ d = <<"a", ":", "a", "a">>

\* x is the substring of s before (after) its first ':'
IsBefore(s, x) ==
    \E k \in 1..Len(s) :
        s[k] = ":" /\ x = SubSeq(s, 1, k - 1) /\ \A j \in 1..Len(x) : x[j] # ":"
IsAfter(s, x) ==
    \E k \in 1..Len(s) :
        s[k] = ":" /\ x = SubSeq(s, k + 1, Len(s)) /\ \A j \in 1..(k - 1) : s[j] # ":"

\* C8: for a digest d that Parse accepted, Parse(d.String()) returns (d, nil),
\* d.Algorithm() and d.Hash() are the substrings before and after the ':' of d,
\* and the digest rebuilt from the two equals d.
C8_RoundTrip ==
    validated =>
        /\ op = "Parse" => (ret.panic = NoPanic /\ ret.err = nil /\ ret.val = d)
        /\ op = "Algorithm" => (ret.panic = NoPanic /\ IsBefore(d, ret.val))
        /\ op = "Hash" => (ret.panic = NoPanic /\ IsAfter(d, ret.val))
        /\ op = "NewDigestFromHash" => (ret.panic = NoPanic /\ ret.val = d)

\* C8 witness: a digest of the second algorithm, rebuilt from its portions
C8_Witness ==
    /\ validated
    /\ op = "NewDigestFromHash"
    /\ ret.val = <<"m", ":", "a", "a">>

----------------------------------------------------------------------------
(* Properties of digesting and verifying *)

\* the encoded portion of a digest of algorithm name n
AfterName(s, n) == SubSeq(s, Len(n) + 2, Len(s))

\* s is the digest algorithm alg gives for the bytes: its name, ':', and the
\* lowercase hex of the hash of the bytes, 2 x Size characters
IsDigestOf(s, alg, bytes) ==
    /\ Len(s) = Len(alg) + 1 + 2 * algorithms[alg].size
    /\ SubSeq(s, 1, Len(alg)) = alg
    /\ s[Len(alg) + 1] = ":"
    /\ AllIn(AfterName(s, alg), Digit \cup LowerAF)
    /\ DecodeString(AfterName(s, alg)).err = nil
    /\ DecodeString(AfterName(s, alg)).raw =
           Sum([size |-> algorithms[alg].size, written |-> bytes])

IsStrictPrefix(x, y) == Len(x) < Len(y) /\ x = SubSeq(y, 1, Len(x))

\* the verifier was built from a digest that Validate accepts
TargetIsValid == verifier.live /\ DigestValidate(verifier.digest) = RetErr(nil)
TargetAlgorithm == AlgorithmPart(verifier.digest)

\* C10: for a Verifier built from a valid target t of algorithm A, Verified()
\* is true exactly when A's digest of all the bytes written so far equals t;
\* it is false after a strict prefix of content whose digest is t and true once
\* the rest is written; and Verified() changes neither the accumulated state
\* nor the target.
C10_VerifiedIffDigestMatches ==
    /\ []((op = "Verified" /\ TargetIsValid) =>
            /\ ret.ok <=> (AlgorithmFromBytes(TargetAlgorithm, stream).val = verifier.digest)
            /\ (verifier.digest = AlgorithmFromBytes(TargetAlgorithm, p).val) =>
                    /\ IsStrictPrefix(stream, p) => ~ret.ok
                    /\ stream = p => ret.ok)
    /\ [][DoVerified => UNCHANGED <<verifier, stream, d, algorithms, anchoredEncodedRegexps>>]_vars

\* C10 witness: the verdict is true once two bytes are written, for a target
\* of the second algorithm
C10_Witness ==
    /\ op = "Verified"
    /\ TargetIsValid
    /\ ret.ok
    /\ Len(stream) = 2
    /\ stream = p
    /\ TargetAlgorithm = <<"m">>

\* C11: Digester.Digest() is a pure read.  It changes neither the hash state
\* nor anything else of the digester, two calls with no write between them
\* return equal digests, a Digest() taken after any writes (and any Digest()
\* calls between them) is the algorithm's FromBytes of all the bytes written,
\* in order, and a write of at least one byte changes the snapshot.
C11_DigestIsPureRead ==
    /\ [](op = "Digest" =>
            /\ ret.panic = NoPanic
            /\ ret.val = AlgorithmFromBytes(digester.alg, written).val)
    /\ [][DoDigest =>
            /\ UNCHANGED <<digester, written>>
            /\ (op = "Digest" => ret' = ret)]_vars
    /\ [][\A b \in ByteSlices \ {<<>>} :
            DoHashWrite(b) => digesterDigest(digester') # digesterDigest(digester)]_vars

\* C11 witness: a snapshot of the second algorithm after two bytes, taken
\* right after an earlier snapshot
C11_Witness ==
    /\ op = "Digest"
    /\ digester.alg = <<"m">>
    /\ Len(written) = 2
    /\ written[1] # written[2]
    /\ ret.val = AlgorithmFromBytes(<<"m">>, written).val

----------------------------------------------------------------------------
(* Properties of the panics of Verifier *)

\* C12: Digest.Verifier() on a digest that was never validated panics while
\* the verifier is built (no verifier comes back), with a panic value that
\* tells the cause: "no ':' separator in digest" for a digest with no ':',
\* "empty digest algorithm, validate before calling Algorithm.Hash()" for an
\* empty algorithm segment, "<name> not available (make sure it is imported)"
\* for an algorithm that is not registered.
C12_VerifierFailsFast ==
    op = "Verifier" =>
        /\ ~HasSeparator(d) => ret.panic = "no ':' separator in digest"
        /\ (HasSeparator(d) /\ AlgorithmPart(d) = <<>>) =>
                ret.panic = "empty digest algorithm, validate before calling Algorithm.Hash()"
        /\ (HasSeparator(d) /\ AlgorithmPart(d) # <<>>
                /\ AlgorithmPart(d) \notin DOMAIN algorithms) =>
                ret.panic = "not available (make sure it is imported)"

----------------------------------------------------------------------------
(* Properties of the registry *)

\* C13: RegisterAlgorithm(name, impl) with a name that is already registered
\* returns false and changes nothing: the implementation and the matcher of
\* that name and every other entry are as before.  With a name of the grammar
\* that is not registered it stores impl (and its matcher) and returns true,
\* and leaves the other entries as they were.
C13_DuplicateRegistrationRejected ==
    [][\A call \in RegisterCalls :
        RegisterAlgorithm(call[1], call[2]) =>
            /\ call[1] \in DOMAIN algorithms =>
                    /\ ret' = RetBool(FALSE)
                    /\ algorithms' = algorithms
                    /\ anchoredEncodedRegexps' = anchoredEncodedRegexps
            /\ (algorithmRegexp(call[1]) /\ call[1] \notin DOMAIN algorithms) =>
                    /\ ret' = RetBool(TRUE)
                    /\ DOMAIN algorithms' = DOMAIN algorithms \cup {call[1]}
                    /\ DOMAIN anchoredEncodedRegexps' =
                           DOMAIN anchoredEncodedRegexps \cup {call[1]}
                    /\ algorithms'[call[1]] = call[2]
                    /\ anchoredEncodedRegexps'[call[1]] = 2 * call[2].size
                    /\ \A n \in DOMAIN algorithms : algorithms'[n] = algorithms[n]
                    /\ \A n \in DOMAIN anchoredEncodedRegexps :
                           anchoredEncodedRegexps'[n] = anchoredEncodedRegexps[n]]_vars

\* C13 witness: a call was rejected after the second name was registered with
\* the largest implementation
C13_Witness ==
    /\ op = "RegisterAlgorithm"
    /\ ret = RetBool(FALSE)
    /\ <<"m">> \in DOMAIN algorithms
    /\ algorithms[<<"m">>] = [available |-> FALSE, size |-> MaxSize]
    /\ anchoredEncodedRegexps[<<"m">>] = 2 * MaxSize

\* C14: the registry only grows.  Whatever call is made (a registration that
\* succeeds, is rejected or panics, or any operation that looks the registry
\* up), every registered name stays registered, bound to the implementation
\* and the matcher it had, so Size(name) of a registered name never changes.
C14_RegistryOnlyGrows ==
    [][/\ \A n \in DOMAIN algorithms :
            /\ n \in DOMAIN algorithms'
            /\ algorithms'[n] = algorithms[n]
            /\ algorithms'[n].size = Size(n)
       /\ \A n \in DOMAIN anchoredEncodedRegexps :
            /\ n \in DOMAIN anchoredEncodedRegexps'
            /\ anchoredEncodedRegexps'[n] = anchoredEncodedRegexps[n]]_vars

\* C14 witness: a registration panicked after the second name was registered,
\* and the second name is bound as it was
C14_Witness ==
    /\ op = "RegisterAlgorithm"
    /\ ret.panic # NoPanic
    /\ DOMAIN algorithms = {<<"a">>, <<"m">>}
    /\ algorithms[<<"m">>] = [available |-> TRUE, size |-> MaxSize]
    /\ algorithms[<<"a">>] = CanonicalHash

----------------------------------------------------------------------------
(* Properties of concurrent registration *)

\* goroutine t has left RegisterAlgorithm
Registered(t) == calls[t].name = "RegisterAlgorithm" /\ calls[t].pc = "done"

\* goroutine t called RegisterAlgorithm with a name outside the grammar and
\* has left it
Rejected(t) == Registered(t) /\ ~algorithmRegexp(calls[t].algorithm)

\* C15: RegisterAlgorithm with a name that does not match
\* ^[a-z0-9]+([+._-][a-z0-9]+)*$ panics (it returns neither a boolean nor an
\* error), adds no entry to algorithms or anchoredEncodedRegexps, and releases
\* algorithmsLock: a goroutine that waits for the lock afterwards gets through
\* its call.
C15_BadNamePanicsAndUnlocks ==
    /\ [](\A t \in Goroutines : Rejected(t) =>
            /\ calls[t].ret.panic # NoPanic
            /\ ~calls[t].ret.ok
            /\ calls[t].algorithm \notin DOMAIN algorithms
            /\ calls[t].algorithm \notin DOMAIN anchoredEncodedRegexps
            /\ algorithmsLock.writer # t)
    /\ [][\A t \in Goroutines :
            (CheckName(t) /\ ~algorithmRegexp(calls[t].algorithm)) =>
                /\ UNCHANGED <<algorithms, anchoredEncodedRegexps>>
                /\ algorithmsLock'.writer = 0]_vars
    /\ \A t, u \in Goroutines :
            (Rejected(t) /\ calls[u].pc \in {"Lock", "RLock"}) ~> (calls[u].pc = "done")

\* C15 witness: after the panic of one goroutine another one registered the
\* second name
C15_Witness ==
    \E t, u \in Goroutines :
        /\ Rejected(t)
        /\ calls[t].ret.panic # NoPanic
        /\ Registered(u)
        /\ calls[u].algorithm = <<"m">>
        /\ calls[u].ret = RetBool(TRUE)

\* the goroutines that call RegisterAlgorithm for name n, and those of them
\* that got true
Registering(n) ==
    {t \in Goroutines : calls[t].name = "RegisterAlgorithm" /\ calls[t].algorithm = n}
Winners(n) == {t \in Registering(n) : calls[t].pc = "done" /\ calls[t].ret = RetBool(TRUE)}

\* C16: when several goroutines call RegisterAlgorithm for the same name that
\* is not registered, in every interleaving at most one gets true; once all of
\* them have returned exactly one got true and the others false; and the
\* registry holds the implementation and the matcher of the call that got
\* true, never the implementation of one call with the matcher of another.
C16_OneRegistrationWins ==
    \A n \in {<<"m">>} :
        /\ Cardinality(Winners(n)) <= 1
        /\ \A t \in Registering(n) :
                calls[t].pc = "done" => calls[t].ret \in {RetBool(TRUE), RetBool(FALSE)}
        /\ (Registering(n) # {} /\ \A t \in Registering(n) : calls[t].pc = "done") =>
                Cardinality(Winners(n)) = 1
        /\ \A w \in Winners(n) :
                /\ n \in DOMAIN algorithms
                /\ n \in DOMAIN anchoredEncodedRegexps
                /\ algorithms[n] = calls[w].implementation
                /\ anchoredEncodedRegexps[n] = 2 * calls[w].implementation.size
        /\ (algorithmsLock.writer = 0 /\ n \in DOMAIN algorithms) =>
                /\ n \in DOMAIN anchoredEncodedRegexps
                /\ anchoredEncodedRegexps[n] = 2 * algorithms[n].size

\* C16 witness: two goroutines registered the second name with different
\* implementations; the one with the largest implementation got true
C16_Witness ==
    \E t, u \in Goroutines :
        /\ t # u
        /\ Registered(t)
        /\ Registered(u)
        /\ calls[t].algorithm = <<"m">>
        /\ calls[u].algorithm = <<"m">>
        /\ calls[t].implementation.size = MaxSize
        /\ calls[u].implementation.size = 1
        /\ calls[t].ret = RetBool(TRUE)
        /\ calls[u].ret = RetBool(FALSE)
        /\ algorithms[<<"m">>].size = MaxSize

----------------------------------------------------------------------------
(* Properties of text unmarshaling *)

\* C17: unmarshaling a text into a Digest never panics.  An empty text gives
\* an empty Digest and no error; a text that is not empty and passes Validate
\* becomes the destination, exactly; a text that is not empty and fails
\* Validate returns the error of Validate (one of the three errors of the
\* package) and the destination stays what it was, never the invalid text.
C17_UnmarshalValidatesFirst ==
    /\ [](op = "UnmarshalText" =>
            /\ ret.panic = NoPanic
            /\ ret.err \in Errors
            /\ arg = <<>> => (ret.err = nil /\ d = <<>>)
            /\ arg # <<>> => ret.err = DigestValidate(arg).err
            /\ (arg # <<>> /\ ret.err = nil) => d = arg
            /\ ret.err # nil => d # arg)
    /\ [][(op' = "UnmarshalText" /\ ret'.err # nil) => d' = d]_vars

\* C17 witness: a text of an unregistered algorithm was refused with
\* ErrDigestUnsupported and the destination kept the valid digest it held
C17_Witness ==
    /\ op = "UnmarshalText"
    /\ arg = <<"m", ":", "a", "a">>
    /\ ret.err = ErrDigestUnsupported
    /\ d = <<"a", ":", "a", "a">>

----------------------------------------------------------------------------
(* Properties of Set *)

\* C18: Algorithm.Set applies the new value only once the availability check
\* has succeeded: when Set(value) returns ErrDigestUnsupported the receiver
\* holds the algorithm it held before the call, so starting from an available
\* selection the selection is an available algorithm after any Set calls.
C18_SetKeepsSelectionOnError ==
    /\ [][(op' = "Set" /\ ret'.err = ErrDigestUnsupported) => receiver' = receiver]_vars
    /\ [](RegisteredAndAvailable(receiver))

\* the algorithm Set(arg) is about: Canonical for the empty value, the value
\* itself otherwise
Candidate == IF arg = <<>> THEN Canonical ELSE arg

\* C19: Algorithm.Set(value) never panics.  Its candidate is Canonical for the
\* empty value and the value itself, verbatim, otherwise (no grammar check).
\* It returns nil exactly when the candidate is registered and available and
\* ErrDigestUnsupported otherwise, and after nil the receiver is the candidate.
C19_SetChecksCandidate ==
    op = "Set" =>
        /\ ret.panic = NoPanic
        /\ ret.err \in {nil, ErrDigestUnsupported}
        /\ (ret.err = nil) <=> RegisteredAndAvailable(Candidate)
        /\ (ret.err = nil) => receiver = Candidate

\* C19 witness: Set("") went back to Canonical from the second algorithm
C19_Witness ==
    /\ op = "Set"
    /\ arg = <<>>
    /\ ret.err = nil
    /\ receiver = Canonical
    /\ flag = <<"m">>

----------------------------------------------------------------------------
(* Properties of FromBytes, FromString and FromReader *)

\* the reader digested last yielded all of p and then io.EOF
ReaderYieldsP == reader.err = EOF /\ Flatten(reader.chunks) = p

\* C21: for a registered and available algorithm A and bytes p, A.FromBytes(p),
\* A.FromString(string(p)) and A.FromReader of a reader that yields p and then
\* io.EOF return the same digest: A's name, ':' and the lowercase hex of the
\* sum of A's hash over p, however the reader chunks p.  The package-level
\* functions return what Canonical's return.  A reader that ends with another
\* error gives the empty Digest and that error.
C21_FromsAgree ==
    /\ (op \in {"FromBytes", "FromString"} /\ RegisteredAndAvailable(receiver)) =>
            /\ ret.panic = NoPanic /\ ret.err = nil
            /\ IsDigestOf(ret.val, receiver, p)
    /\ (op = "FromReader" /\ RegisteredAndAvailable(receiver) /\ ReaderYieldsP) =>
            /\ ret.panic = NoPanic /\ ret.err = nil
            /\ IsDigestOf(ret.val, receiver, p)
            /\ ret.val = AlgorithmFromBytes(receiver, p).val
    /\ op \in {"digest.FromBytes", "digest.FromString"} =>
            /\ ret.panic = NoPanic /\ ret.err = nil
            /\ IsDigestOf(ret.val, Canonical, p)
    /\ (op = "digest.FromReader" /\ ReaderYieldsP) =>
            /\ ret.panic = NoPanic /\ ret.err = nil
            /\ IsDigestOf(ret.val, Canonical, p)
    /\ (op = "FromReader" /\ RegisteredAndAvailable(receiver) /\ reader.err # EOF) =>
            /\ ret.panic = NoPanic /\ ret.err = reader.err /\ ret.val = <<>>
    /\ (op = "digest.FromReader" /\ reader.err # EOF) =>
            /\ ret.panic = NoPanic /\ ret.err = reader.err /\ ret.val = <<>>

\* C21 witness: the second algorithm digested a reader that yields two
\* different bytes in two chunks
C21_Witness ==
    /\ op = "FromReader"
    /\ receiver = <<"m">>
    /\ RegisteredAndAvailable(receiver)
    /\ ReaderYieldsP
    /\ Len(reader.chunks) = 2
    /\ p = <<0, 1>>
    /\ ret.val = AlgorithmFromBytes(receiver, p).val

----------------------------------------------------------------------------
(* Properties of the lookups *)

\* C22: Algorithm.Available() and Algorithm.Size() never panic and never
\* change the registry.  For a name that is not registered (the empty name
\* too) Available() is false and Size() is 0; for a registered name they are
\* the Available() and the Size() of the stored implementation.
C22_LookupsAreTotal ==
    /\ [](op = "Available" =>
            /\ ret.panic = NoPanic
            /\ receiver \notin DOMAIN algorithms => ret.ok = FALSE
            /\ receiver \in DOMAIN algorithms => ret.ok = algorithms[receiver].available)
    /\ [](op = "Size" =>
            /\ ret.panic = NoPanic
            /\ receiver \notin DOMAIN algorithms => ret.val = 0
            /\ receiver \in DOMAIN algorithms => ret.val = algorithms[receiver].size)
    /\ [][op' \in {"Available", "Size"} =>
            UNCHANGED <<algorithms, anchoredEncodedRegexps>>]_vars

\* C22 witness: the second algorithm is registered with an implementation
\* that reports unavailable, and Available() answered false
C22_Witness ==
    /\ op = "Available"
    /\ receiver = <<"m">>
    /\ receiver \in DOMAIN algorithms
    /\ algorithms[receiver].size = MaxSize
    /\ ret = RetBool(FALSE)

----------------------------------------------------------------------------
(* Properties of Algorithm.Validate beside registrations *)

\* a goroutine is inside a call
InCall(t) == calls[t].pc \notin {"idle", "done"}

\* a goroutine inside a call cannot take its next step: it waits for
\* algorithmsLock
Waits(t) ==
    \/ /\ calls[t].pc \in {"RLock", "Size.RLock"}
       /\ algorithmsLock.writer # 0 \/ algorithmsLock.waiting # 0
    \/ /\ calls[t].pc = "Lock"
       /\ \/ algorithmsLock.writer # 0
          \/ algorithmsLock.waiting \notin {0, t}
          \/ algorithmsLock.waiting = t /\ algorithmsLock.readers > 0

\* C23: no interleaving of Algorithm.Validate calls with RegisterAlgorithm
\* calls deadlocks on the registry lock, although Validate calls Size(),
\* which takes the read lock again, while it holds the read lock, and a
\* waiting writer blocks new readers: the calls in progress never all wait
\* for the lock.
C23_ValidateNeverDeadlocks ==
    (\E t \in Goroutines : InCall(t)) => \E t \in Goroutines : InCall(t) /\ ~Waits(t)

\* C23, as the progress it is stated for: with fair scheduling every call
\* that was entered returns
C23_EveryCallReturns ==
    \A t \in Goroutines : InCall(t) ~> calls[t].pc = "done"

----------------------------------------------------------------------------
(* Properties of the registry as its readers see it *)

\* encoded parts tried against a stored matcher: a character of [a-f0-9]
\* and one outside it, up to one character more than the longest matcher
MatcherProbes == UNION {[1..n -> {"f", "g"}] : n \in 0..(2 * MaxSize + 1)}

\* C24: whenever the registry lock is not held for writing, algorithms and
\* anchoredEncodedRegexps have the same keys, every key fits the grammar
\* ^[a-z0-9]+([+._-][a-z0-9]+)*$, and the matcher stored for a name accepts
\* exactly the strings of 2 x Size(stored implementation) characters of
\* [a-f0-9].
C24_RegistryInvariant ==
    algorithmsLock.writer = 0 =>
        /\ DOMAIN algorithms = DOMAIN anchoredEncodedRegexps
        /\ \A n \in DOMAIN algorithms :
                /\ algorithmRegexp(n)
                /\ \A s \in MatcherProbes :
                        MatchHexDigest(anchoredEncodedRegexps[n], s) <=>
                            /\ Len(s) = 2 * algorithms[n].size
                            /\ AllIn(s, Digit \cup LowerAF)

\* C24 witness: a registration of the second name with the largest
\* implementation returned true beside a rejected name outside the grammar,
\* and the lock is free
C24_Witness ==
    /\ algorithmsLock.writer = 0
    /\ <<"m">> \in DOMAIN algorithms
    /\ algorithms[<<"m">>].size = MaxSize
    /\ \E t, u \in Goroutines :
            /\ calls[t].pc = "done" /\ calls[t].ret = RetBool(TRUE)
            /\ calls[u].pc = "done" /\ calls[u].algorithm = <<"_">>

----------------------------------------------------------------------------
(* Properties of validation across registrations *)

\* the digest strings whose verdict is followed: each name, registered or
\* not, in the grammar or not, before each encoded part tried; and two
\* strings without a separator
ValidityProbes ==
    {n \o <<":">> \o e : n \in {<<"a">>, <<"m">>, <<"_">>}, e \in MatcherProbes}
        \cup {<<>>, <<"m">>}

\* C25: validity is stable under registration.  A string for which
\* Digest.Validate returns nil keeps that verdict after every later
\* RegisterAlgorithm call, and a registration changes the verdict of a
\* string only if the verdict was ErrDigestUnsupported before it; the same
\* holds for Algorithm.Validate of a name and an encoded part.
C25_ValidityIsStable ==
    [][algorithms' # algorithms =>
        /\ \A s \in ValidityProbes :
            /\ DigestValidate(s) = RetErr(nil) => DigestValidate(s)' = RetErr(nil)
            /\ DigestValidate(s)' # DigestValidate(s) =>
                    DigestValidate(s) = RetErr(ErrDigestUnsupported)
        /\ \A n \in {<<"a">>, <<"m">>, <<"_">>} : \A e \in MatcherProbes :
            /\ AlgorithmValidate(n, e) = nil => AlgorithmValidate(n, e)' = nil
            /\ AlgorithmValidate(n, e)' # AlgorithmValidate(n, e) =>
                    AlgorithmValidate(n, e) = ErrDigestUnsupported]_vars

\* C25 witness: the second name was just registered with the largest
\* available implementation, so a string of that name became valid, and the
\* string of the canonical name that was valid before is valid still
C25_Witness ==
    /\ op = "RegisterAlgorithm"
    /\ ret = RetBool(TRUE)
    /\ algorithms[<<"m">>] = [available |-> TRUE, size |-> MaxSize]
    /\ DigestValidate(<<"m", ":">> \o [k \in 1..(2 * MaxSize) |-> "f"]) = RetErr(nil)
    /\ DigestValidate(<<"m", ":", "f", "f">>) = RetErr(ErrDigestInvalidLength)
    /\ d = <<"a", ":", "f", "f">>
    /\ DigestValidate(d) = RetErr(nil)

----------------------------------------------------------------------------
(* Properties of Algorithm.Hash *)

====
